---------------------------- MODULE Spec2Model ----------------------------
(***************************************************************************)
(* Tempo tracker CLI: the tracking session state machine of                *)
(* src/src/commands.ts (startTracking, stopTracking, the branch poll, the  *)
(* heartbeat and the auto-stop timer) together with the daemon client of   *)
(* src/unnamed/part_001.                                                   *)
(*                                                                         *)
(* One module instance of commands.ts is modelled: its module-level timer  *)
(* handles, the configuration store it reads and writes (config.           *)
(* activeTracking and the activity log) and the daemon it may talk to.     *)
(* Every async function is cut at its awaits: one action is the code that  *)
(* runs when an awaited call resolves, up to the next await.  A store call *)
(* (getConfig, updateConfig, addActivityLog) takes effect in the action    *)
(* in which it resolves.  The caller issues one command at a time; timer   *)
(* callbacks run interleaved with it at the awaits.                        *)
(*                                                                         *)
(* Time is a clock of abstract units; MAX_TRACKING_TIME_MS is the eight    *)
(* hours of the code expressed in these units.                             *)
(***************************************************************************)
EXTENDS Integers, Sequences, FiniteSets, TLC

\* ------------------------------------------------------------------ bounds
MaxTime == 2
MaxStarts == 2
MaxLog == 2
MaxSyncs == 2
MaxBeats == 2
MaxDepth == 2
ScenarioEnd == 5

\* ------------------------------------------------------- program constants
\* const MAX_TRACKING_TIME_MS = 8 * 60 * 60 * 1000: one clock unit
MAX_TRACKING_TIME_MS == 1

\* options.issueId left undefined by the caller
NoIssue == -1

\* ------------------------------------------------------------ the file tree
\* A path is the sequence of its components; <<>> is the filesystem root.
RepoA == <<"a">>
RepoB == <<"b">>
\* directories that hold a .git entry
GitDirs == {RepoA, RepoB}
\* values of process.cwd(): inside repository a, repository b, outside any
Cwds == {RepoA, <<"a", "src">>, RepoB, <<"tmp">>}
\* startTracking is called inside repository a or outside any repository;
\* repository b is one where tracking is never started
StartCwds == {RepoA, <<"a", "src">>, <<"tmp">>}
Branches == {"main", "dev"}
\* the options the n-th startTracking call is given: none first, then an
\* issue and a description
Options(n) == IF n = 1 THEN [issueId |-> NoIssue, description |-> ""]
              ELSE [issueId |-> 6 + n, description |-> "d"]

\* path.dirname on a path that is not the root
Dirname(p) == SubSeq(p, 1, Len(p) - 1)

\* findGitRoot: walks up from startDirectory while the directory is not the
\* filesystem root; the result is <<dir>>, or <<>> for null.
RECURSIVE FindGitRoot(_)
FindGitRoot(currentDir) ==
    IF currentDir = <<>> THEN <<>>
    ELSE IF currentDir \in GitDirs THEN <<currentDir>>
    ELSE FindGitRoot(Dirname(currentDir))

\* ---------------------------------------------------------------- the state
VARIABLES
    now,                  \* new Date()
    socketExists,         \* the daemon's socket file exists: the daemon is running
    registry,             \* the daemon's sessions, by directory
    activeTracking,       \* config.activeTracking: <<>> or <<session>>
    activityLog,          \* the activity log of the store
    activeCheckInterval,  \* the branch check interval is armed
    activePulseInterval,  \* the pulse interval is armed
    autoStopTimer,        \* "null", "armed" or "fired"
    autoStopDeadline,     \* when the armed auto-stop timer is due
    cmd,                  \* the command in progress (startTracking, stopTracking)
    stp,                  \* the stopTracking activations: of the command, of the auto-stop timer
    poll,                 \* the checkCurrentBranch activation
    starts,               \* startTracking calls made so far
    run,                  \* history: the tracking run of the latest local session
    configured,           \* config.apiKey and config.jiraAccountId are set
    sync,                 \* the syncTempo activation
    remote,               \* history: the worklogs createTempoWorklog has created
    syncs,                \* syncTempo calls made so far
    report,               \* how the latest syncTempo ended: <<>> or <<summary>>
    ipc,                  \* the singleton IPC client: its connection
    dop,                  \* the daemon client operation in progress
    ccmd,                 \* the CLI command that uses the daemon client
    probeTimer,           \* testTimeout of the isDaemonRunning in progress
    staleTimer,           \* a testTimeout left armed by an isDaemonRunning that returned
    lastCmd,              \* history: how the latest CLI command of ccmd ended
    pulse,                \* the sendPulse activation of the pulse interval
    beats,                \* history: the heartbeats sent to the Remote
    remoteUp,             \* whether the Remote accepts a heartbeat sent now
    head,                 \* the branch the repositories have checked out, and
                          \* since when if it was changed
    live,                 \* how many timers the runtime has armed, by kind
    processed,            \* history of the syncTempo call in progress or last made
    walk                  \* a call of findGitRoot: its file tree, argument and locals

vars == <<now, socketExists, registry, activeTracking, activityLog,
          activeCheckInterval, activePulseInterval, autoStopTimer,
          autoStopDeadline, cmd, stp, poll, starts, run,
          configured, sync, remote, syncs, report,
          ipc, dop, ccmd, probeTimer, staleTimer, lastCmd,
          pulse, beats, remoteUp, head, live, processed, walk>>

Threads == {"cmd", "auto"}

\* options.issueId || 0
IssueOrZero(issueId) == IF issueId = NoIssue THEN 0 ELSE issueId

Session(directory, branch, startTime, issueId, description) ==
    [directory |-> directory, branch |-> branch, startTime |-> startTime,
     issueId |-> issueId, description |-> description]

\* the record addActivityLog is given when a segment is closed
Entry(s, endTime) ==
    [directory |-> s.directory, branch |-> s.branch, startTime |-> s.startTime,
     endTime |-> endTime, issueId |-> s.issueId, description |-> s.description,
     synced |-> FALSE]

IdleCmd == [op |-> "none", pc |-> "idle", root |-> <<>>, issueId |-> NoIssue,
            description |-> "", branch |-> "", startTime |-> 0, config |-> <<>>]
IdleStop == [pc |-> "idle", root |-> <<>>, snap |-> <<>>, endTime |-> 0]
IdlePoll == [pc |-> "idle", snap |-> <<>>, branch |-> "", endTime |-> 0]

\* History of the latest local session: when it was created, how long the
\* activity log was then, whether a branch change was recorded since, and when
\* a stopTracking closed it (<<>> while it has not).
NoRun == [start |-> 0, from |-> 0, rolled |-> FALSE, stopTime |-> <<>>]

\* ------------------------------------------------------------- syncTempo: data
\* activity.endTime left undefined
NoEndTime == -1
\* the milliseconds of one day: the date of an entry is the YYYY-MM-DD prefix
\* of its ISO startTime
DayMs == 86400000
MsPerSecond == 1000
\* if (durationSeconds < 60)
MinSyncSeconds == 60

\* values of options.date, as day numbers
Dates == {0, 1}
DateOf(startTime) == startTime \div DayMs

\* Math.round(ms / 1000) of a duration that is not negative
RoundSeconds(ms) == (2 * ms + MsPerSecond) \div (2 * MsPerSecond)

\* durations of logged segments, in milliseconds: below the minimum, below it
\* but rounding up to it, above it
Durations == {59499, 59500, 120000}

\* issue ids typed at the prompt (validate refuses an empty input)
ProvidedIssueIds == {7}

IdleSync == [pc |-> "idle", date |-> 0, dateActivities |-> <<>>, todo |-> <<>>,
             succeeded |-> 0, failed |-> 0, rejected |-> 0]
IdleOp == [op |-> "none", pc |-> "idle", sawSocket |-> FALSE]
IdleCommand == [name |-> "none", pc |-> "idle", ops |-> <<>>]

\* the activities the loop of syncTempo is through with, each with the way its
\* iteration ended, and the activities createTempoWorklog resolved for
NothingProcessed == [activities |-> <<>>, submitted |-> <<>>]

\* no syncTempo has run
SyncAtRest ==
    /\ sync = IdleSync
    /\ remote = <<>>
    /\ syncs = 0
    /\ report = <<>>
    /\ processed = NothingProcessed

\* the daemon client has not been used
ClientAtRest ==
    /\ ipc = [connected |-> FALSE, sent |-> 0]
    /\ dop = IdleOp
    /\ ccmd = IdleCommand
    /\ probeTimer = "null"
    /\ staleTimer = FALSE
    /\ lastCmd = <<>>

\* sendPulse of the interval: idle, or awaiting getConfig() ("config"), or
\* awaiting sendTempoPulseDirect ("send"); ok is how the latest request ended
IdlePulse == [pc |-> "idle", ok |-> TRUE]

\* no heartbeat has been sent and the Remote is reachable
PulseAtRest ==
    /\ pulse = IdlePulse
    /\ beats = <<>>
    /\ remoteUp = TRUE

\* no findGitRoot is followed step by step
NoWalk == [pc |-> "none"]

\* the runtime has no timer armed
NoTimers == live = [check |-> 0, pulse |-> 0, auto |-> 0]

\* setInterval / setTimeout: the runtime has one more timer of the kind
SetTimer(armed, kind) == [armed EXCEPT ![kind] = @ + 1]

\* clearInterval / clearTimeout under if (handle): the timer the handle stands
\* for is disarmed; a handle that is null, or whose timeout has fired, disarms
\* nothing
ClearTimer(armed, kind, handleArmed) ==
    IF handleArmed THEN [armed EXCEPT ![kind] = @ - 1] ELSE armed

\* stopBranchChecks(), stopPulseSending(), cancelAutoStop()
StopBranchChecks(armed) == ClearTimer(armed, "check", activeCheckInterval)
StopPulseSending(armed) == ClearTimer(armed, "pulse", activePulseInterval)
CancelAutoStop(armed) == ClearTimer(armed, "auto", autoStopTimer = "armed")

\* startBranchChecks() that arms its interval over the one there is
StartBranchChecksKeepsOld(armed) == SetTimer(armed, "check")

\* startBranchChecks(): stopBranchChecks(), then setInterval
StartBranchChecks(armed) == SetTimer(StopBranchChecks(armed), "check")

\* scheduleAutoStop(): clearTimeout of the timer there is, then setTimeout
ArmAutoStop(armed) == SetTimer(CancelAutoStop(armed), "auto")

\* the repositories are on main and no branch was checked out since
NoChange == -1
HeadAtRest == head = [branch |-> "main", since |-> NoChange]

Init ==
    /\ configured = TRUE
    /\ SyncAtRest
    /\ ClientAtRest
    /\ PulseAtRest
    /\ walk = NoWalk
    /\ NoTimers
    /\ HeadAtRest
    /\ now = 0
    /\ socketExists = FALSE
    /\ registry = [d \in GitDirs |-> <<>>]
    /\ activeTracking = <<>>
    /\ activityLog = <<>>
    /\ activeCheckInterval = FALSE
    /\ activePulseInterval = FALSE
    /\ autoStopTimer = "null"
    /\ autoStopDeadline = 0
    /\ cmd = IdleCmd
    /\ stp = [t \in Threads |-> IdleStop]
    /\ poll = IdlePoll
    /\ starts = 0
    /\ run = NoRun

\* whether a call to the daemon (the isDaemonRunning probe, a request) gets
\* through: never without the socket file, and with it the daemon may still
\* refuse the connection or not answer in time
ProbeResults == IF socketExists THEN BOOLEAN ELSE {FALSE}


timers == <<activeCheckInterval, activePulseInterval, autoStopTimer, autoStopDeadline>>
store == <<activeTracking, activityLog>>
daemon == <<socketExists, registry>>
tracking == <<now, registry, store, timers, cmd, stp, poll, starts, run>>
syncing == <<configured, sync, remote, syncs, report, processed>>
client == <<ipc, dop, ccmd, probeTimer, staleTimer, lastCmd>>
pulsing == <<pulse, beats, remoteUp>>

\* --------------------------------------------------------------- the daemon
\* startDaemon / stopDaemon of daemon/service: the registry lives in the
\* daemon's memory and is lost with it.
DaemonStart ==
    /\ ~socketExists
    /\ socketExists' = TRUE
    /\ UNCHANGED <<now, registry, store, timers, cmd, stp, poll, starts, run, syncing, client, pulsing, head, live, walk>>

DaemonStop ==
    /\ socketExists
    /\ socketExists' = FALSE
    /\ registry' = [d \in GitDirs |-> <<>>]
    /\ UNCHANGED <<now, store, timers, cmd, stp, poll, starts, run, syncing, client, pulsing, head, live, walk>>

\* ---------------------------------------------------------------- the clock
\* An armed auto-stop timer that is due fires before the clock moves on.
Tick ==
    /\ now < MaxTime
    /\ ~(autoStopTimer = "armed" /\ now >= autoStopDeadline)
    /\ now' = now + 1
    /\ UNCHANGED <<daemon, store, timers, cmd, stp, poll, starts, run, syncing, client, pulsing, head, live, walk>>

\* ------------------------------------------------------------- stopTracking
\* stopTracking returns in activation t: the command ends, or the
\* startTracking that called it goes on to its branch lookup.
StopReturns(t) ==
    /\ stp' = [stp EXCEPT ![t] = IdleStop]
    /\ cmd' = IF t # "cmd" THEN cmd
              ELSE IF cmd.op = "start" THEN [cmd EXCEPT !.pc = "branch"]
              ELSE IdleCmd

\* stopTracking() begins in activation t, with findGitRoot(process.cwd())
StopBegins(t, cwd) ==
    stp' = [stp EXCEPT ![t] = [IdleStop EXCEPT !.pc = "probe", !.root = FindGitRoot(cwd)]]

\* the caller invokes stopTracking()
StopCall ==
    /\ cmd.op = "none"
    /\ cmd' = [IdleCmd EXCEPT !.op = "stop", !.pc = "stopping"]
    /\ \E cwd \in Cwds : StopBegins("cmd", cwd)
    /\ UNCHANGED <<now, daemon, store, timers, poll, starts, run, syncing, client, pulsing, head, live, walk>>

\* the daemon's stopTracking(directory): the open segment is closed into the
\* activity log and the session leaves the registry
DaemonStopTracking(directory) ==
    /\ activityLog' = Append(activityLog, Entry(registry[directory][1], now))
    /\ registry' = [registry EXCEPT ![directory] = <<>>]

\* isDaemonRunning() resolves; when it says yes and the cwd is inside a
\* repository, stopTrackingViaDaemon() is awaited and stopTracking returns,
\* unless the daemon call throws (no session of that directory), which falls
\* through to the local path.
StopProbe(t) ==
    /\ stp[t].pc = "probe"
    /\ \E running \in ProbeResults :
         LET gitRoot == stp[t].root
             viaDaemon == running /\ gitRoot # <<>>
             session == IF gitRoot = <<>> THEN <<>> ELSE registry[gitRoot[1]]
         IN
         \/ /\ viaDaemon /\ session # <<>>
            /\ Len(activityLog) < MaxLog
            /\ DaemonStopTracking(gitRoot[1])
            /\ StopReturns(t)
            /\ UNCHANGED <<activeTracking>>
         \/ /\ ~viaDaemon \/ session = <<>>
            /\ stp' = [stp EXCEPT ![t].pc = "config"]
            /\ UNCHANGED <<registry, store, cmd>>
    /\ UNCHANGED <<now, socketExists, timers, poll, starts, run, syncing, client, pulsing, head, live, walk>>

\* getConfig() resolves: no activeTracking returns; otherwise endTime = new Date()
StopGetConfig(t) ==
    /\ stp[t].pc = "config"
    /\ \/ /\ activeTracking = <<>>
          /\ StopReturns(t)
       \/ /\ activeTracking # <<>>
          /\ stp' = [stp EXCEPT ![t].pc = "append", ![t].snap = activeTracking,
                                ![t].endTime = now]
          /\ UNCHANGED cmd
    /\ UNCHANGED <<now, daemon, store, timers, poll, starts, run, syncing, client, pulsing, head, live, walk>>

\* addActivityLog(...) resolves
StopAppend(t) ==
    /\ stp[t].pc = "append"
    /\ Len(activityLog) < MaxLog
    /\ activityLog' = Append(activityLog, Entry(stp[t].snap[1], stp[t].endTime))
    /\ stp' = [stp EXCEPT ![t].pc = "clear"]
    /\ UNCHANGED <<now, daemon, activeTracking, timers, cmd, poll, starts, run, syncing, client, pulsing, head, live, walk>>

\* updateConfig({activeTracking: undefined}) resolves, then stopBranchChecks(),
\* stopPulseSending() and cancelAutoStop()
StopClear(t) ==
    /\ stp[t].pc = "clear"
    /\ activeTracking' = <<>>
    /\ activeCheckInterval' = FALSE
    /\ activePulseInterval' = FALSE
    /\ autoStopTimer' = "null"
    /\ StopReturns(t)
    /\ run' = [run EXCEPT !.stopTime = <<stp[t].endTime>>]
    /\ UNCHANGED <<now, daemon, activityLog, autoStopDeadline, poll, starts, syncing, client, pulsing, head, walk>>
    /\ live' = CancelAutoStop(StopPulseSending(StopBranchChecks(live)))

\* stopTracking throws in activation t: a command ends with the error
\* printed, the auto-stop callback ends
StopThrows(t) ==
    /\ stp' = [stp EXCEPT ![t] = IdleStop]
    /\ cmd' = IF t = "cmd" THEN IdleCmd ELSE cmd

\* addActivityLog(...) throws: nothing is appended
StopAppendFails(t) ==
    /\ stp[t].pc = "append"
    /\ StopThrows(t)
    /\ UNCHANGED <<now, daemon, store, timers, poll, starts, run, syncing, client, pulsing, head, live, walk>>

\* updateConfig({activeTracking: undefined}) throws: the session stays in the
\* store and the lines that stop the timers are not reached
StopClearFails(t) ==
    /\ stp[t].pc = "clear"
    /\ StopThrows(t)
    /\ UNCHANGED <<now, daemon, store, timers, poll, starts, run, syncing, client, pulsing, head, live, walk>>

\* the auto-stop timer fires: its callback awaits stopTracking()
AutoStopFire ==
    /\ autoStopTimer = "armed"
    /\ now >= autoStopDeadline
    /\ stp["auto"].pc = "idle"
    /\ autoStopTimer' = "fired"
    /\ \E cwd \in Cwds : StopBegins("auto", cwd)
    /\ UNCHANGED <<now, daemon, store, activeCheckInterval, activePulseInterval,
                   autoStopDeadline, cmd, poll, starts, run, syncing, client, pulsing, head, walk>>
    /\ live' = [live EXCEPT !.auto = @ - 1]

\* ------------------------------------------------------- checkCurrentBranch
\* what getCurrentBranch can answer: a branch, or a throw
GitFail == "git_error"
OracleResults == Branches \cup {GitFail}

\* the branch check interval fires; getConfig() resolves
PollFire ==
    /\ activeCheckInterval
    /\ poll.pc = "idle"
    /\ \/ /\ activeTracking = <<>>
          /\ activeCheckInterval' = FALSE
          /\ poll' = IdlePoll
       \/ /\ activeTracking # <<>>
          /\ poll' = [IdlePoll EXCEPT !.pc = "oracle", !.snap = activeTracking]
          /\ UNCHANGED activeCheckInterval
    /\ UNCHANGED <<now, daemon, store, activePulseInterval, autoStopTimer,
                   autoStopDeadline, cmd, stp, starts, run, syncing, client, pulsing, head, walk>>
    /\ live' = IF activeTracking = <<>> THEN StopBranchChecks(live) ELSE live

\* PollOracle with a throw that stops the branch checks
PollOracleStopsOnThrow ==
    /\ poll.pc = "oracle"
    /\ \E currentBranch \in OracleResults :
         \/ /\ currentBranch = GitFail
            /\ poll' = [IdlePoll EXCEPT !.branch = GitFail]
            /\ activeCheckInterval' = FALSE
         \/ /\ currentBranch = poll.snap[1].branch
            /\ poll' = IdlePoll
            /\ UNCHANGED activeCheckInterval
         \/ /\ currentBranch \notin {GitFail, poll.snap[1].branch}
            /\ poll' = [poll EXCEPT !.pc = "append", !.branch = currentBranch,
                                    !.endTime = now]
            /\ UNCHANGED activeCheckInterval
    /\ UNCHANGED <<now, daemon, store, activePulseInterval, autoStopTimer,
                   autoStopDeadline, cmd, stp, starts, run, syncing, client, pulsing, head, walk>>
    /\ live' = IF activeCheckInterval' THEN live ELSE StopBranchChecks(live)

\* getCurrentBranch(config.activeTracking.directory) resolves or throws;
\* on a different branch, endTime = new Date(); a throw is caught and logged,
\* and the idle poll remembers it until the interval fires again
PollOracle ==
    /\ poll.pc = "oracle"
    /\ \E currentBranch \in OracleResults :
         \/ /\ currentBranch = GitFail
            /\ poll' = [IdlePoll EXCEPT !.branch = GitFail]
         \/ /\ currentBranch = poll.snap[1].branch
            /\ poll' = IdlePoll
         \/ /\ currentBranch \notin {GitFail, poll.snap[1].branch}
            /\ poll' = [poll EXCEPT !.pc = "append", !.branch = currentBranch,
                                    !.endTime = now]
    /\ UNCHANGED <<now, daemon, store, timers, cmd, stp, starts, run, syncing, client, pulsing, head, live, walk>>

\* addActivityLog(...) resolves
PollAppend ==
    /\ poll.pc = "append"
    /\ Len(activityLog) < MaxLog
    /\ activityLog' = Append(activityLog, Entry(poll.snap[1], poll.endTime))
    /\ poll' = [poll EXCEPT !.pc = "update"]
    /\ UNCHANGED <<now, daemon, activeTracking, timers, cmd, stp, starts, run, syncing, client, pulsing, head, live, walk>>

\* the session updateConfig is given: {...config.activeTracking, branch, startTime}
RolledOver(snap, currentBranch, endTime) ==
    [snap EXCEPT !.branch = currentBranch, !.startTime = endTime]

\* updateConfig({activeTracking: {...}}) resolves
PollUpdate ==
    /\ poll.pc = "update"
    /\ activeTracking' = <<RolledOver(poll.snap[1], poll.branch, poll.endTime)>>
    /\ poll' = IdlePoll
    /\ run' = [run EXCEPT !.rolled = TRUE]
    /\ UNCHANGED <<now, daemon, activityLog, timers, cmd, stp, starts, syncing, client, pulsing, head, live, walk>>

\* ------------------------------------------------------------ startTracking
StartReturns == cmd' = IdleCmd

\* scheduleAutoStop(): any earlier timer is cleared, a new one is armed
ScheduleAutoStop ==
    /\ autoStopTimer' = "armed"
    /\ autoStopDeadline' = now + MAX_TRACKING_TIME_MS

\* the caller invokes startTracking(options); findGitRoot(process.cwd())
StartCall ==
    /\ cmd.op = "none"
    /\ starts < MaxStarts
    /\ starts' = starts + 1
    /\ \E cwd \in StartCwds :
         LET gitRoot == FindGitRoot(cwd)
             options == Options(starts + 1)
         IN
         \/ /\ gitRoot = <<>>
            /\ StartReturns
         \/ /\ gitRoot # <<>>
            /\ cmd' = [IdleCmd EXCEPT !.op = "start", !.pc = "probe", !.root = gitRoot,
                                      !.issueId = options.issueId,
                                      !.description = options.description]
    /\ UNCHANGED <<now, daemon, store, timers, stp, poll, run, syncing, client, pulsing, head, live, walk>>

\* isDaemonRunning() resolves
StartProbe ==
    /\ cmd.op = "start" /\ cmd.pc = "probe"
    /\ \E running \in ProbeResults :
         cmd' = [cmd EXCEPT !.pc = IF running THEN "dBranch" ELSE "config"]
    /\ UNCHANGED <<now, daemon, store, timers, stp, poll, starts, run, syncing, client, pulsing, head, live, walk>>

\* daemon path: getCurrentBranch(gitRoot) resolves, or throws to the outer catch
StartDaemonBranch ==
    /\ cmd.op = "start" /\ cmd.pc = "dBranch"
    /\ \E branch \in OracleResults :
         cmd' = IF branch = GitFail THEN [cmd EXCEPT !.pc = "config"]
                ELSE [cmd EXCEPT !.pc = "dStatus", !.branch = branch]
    /\ UNCHANGED <<now, daemon, store, timers, stp, poll, starts, run, syncing, client, pulsing, head, live, walk>>

\* daemon path: getStatusFromDaemon() resolves, or throws to the outer catch;
\* a session of this directory ends the command
StartDaemonStatus ==
    /\ cmd.op = "start" /\ cmd.pc = "dStatus"
    /\ \E reached \in ProbeResults :
         \/ /\ ~reached
            /\ cmd' = [cmd EXCEPT !.pc = "config"]
         \/ /\ reached /\ registry[cmd.root[1]] # <<>>
            /\ StartReturns
         \/ /\ reached /\ registry[cmd.root[1]] = <<>>
            /\ cmd' = [cmd EXCEPT !.pc = "dStart"]
    /\ UNCHANGED <<now, daemon, store, timers, stp, poll, starts, run, syncing, client, pulsing, head, live, walk>>

\* daemon path: startTrackingViaDaemon(options) looks the branch up again and
\* sends startTracking; every throw is caught and falls back to local tracking
StartDaemonStart ==
    /\ cmd.op = "start" /\ cmd.pc = "dStart"
    /\ \E branch \in OracleResults, reached \in ProbeResults :
         \/ /\ branch = GitFail \/ ~reached \/ registry[cmd.root[1]] # <<>>
            /\ cmd' = [cmd EXCEPT !.pc = "config"]
            /\ UNCHANGED registry
         \/ /\ branch # GitFail /\ reached /\ registry[cmd.root[1]] = <<>>
            /\ registry' = [registry EXCEPT ![cmd.root[1]] =
                              <<Session(cmd.root[1], branch, now, cmd.issueId,
                                        cmd.description)>>]
            /\ cmd' = [cmd EXCEPT !.pc = "dVerify"]
    /\ UNCHANGED <<now, socketExists, store, timers, stp, poll, starts, run, syncing, client, pulsing, head, live, walk>>

\* daemon path: the verifying getStatusFromDaemon() resolves or throws
StartDaemonVerify ==
    /\ cmd.op = "start" /\ cmd.pc = "dVerify"
    /\ \E reached \in ProbeResults :
         LET trackingStarted == /\ reached
                                /\ registry[cmd.root[1]] # <<>>
                                /\ registry[cmd.root[1]][1].branch = cmd.branch
         IN  IF trackingStarted THEN StartReturns
             ELSE cmd' = [cmd EXCEPT !.pc = "config"]
    /\ UNCHANGED <<now, daemon, store, timers, stp, poll, starts, run, syncing, client, pulsing, head, live, walk>>

\* local path: getConfig() resolves; config is what the store holds now
StartGetConfig ==
    /\ cmd.op = "start" /\ cmd.pc = "config"
    /\ cmd' = [cmd EXCEPT !.pc = IF activeTracking # <<>> THEN "prompt" ELSE "branch",
                          !.config = <<[activeTracking |-> activeTracking,
                                        activityLog |-> activityLog]>>]
    /\ UNCHANGED <<now, daemon, store, timers, stp, poll, starts, run, syncing, client, pulsing, head, live, walk>>

\* local path: the confirm prompt resolves; yes awaits stopTracking()
StartPrompt ==
    /\ cmd.op = "start" /\ cmd.pc = "prompt"
    /\ \E shouldContinue \in BOOLEAN :
         \/ /\ ~shouldContinue
            /\ StartReturns
            /\ UNCHANGED stp
         \/ /\ shouldContinue
            /\ cmd' = [cmd EXCEPT !.pc = "nestedStop"]
            /\ StopBegins("cmd", cmd.root[1])
    /\ UNCHANGED <<now, daemon, store, timers, poll, starts, run, syncing, client, pulsing, head, live, walk>>

\* local path: getCurrentBranch(gitRoot) resolves or throws out of startTracking;
\* startTime = new Date()
StartLocalBranch ==
    /\ cmd.op = "start" /\ cmd.pc = "branch"
    /\ \E branch \in OracleResults :
         IF branch = GitFail THEN StartReturns
         ELSE cmd' = [cmd EXCEPT !.pc = "create", !.branch = branch, !.startTime = now]
    /\ UNCHANGED <<now, daemon, store, timers, stp, poll, starts, run, syncing, client, pulsing, head, live, walk>>

\* local path: updateConfig({activeTracking}) resolves, startBranchChecks(),
\* then startPulseSending(): without a pulse interval it awaits sendPulse(),
\* with one it returns and scheduleAutoStop() follows at once
StartCreate ==
    /\ cmd.op = "start" /\ cmd.pc = "create"
    /\ activeTracking' = <<Session(cmd.root[1], cmd.branch, cmd.startTime,
                                   IssueOrZero(cmd.issueId), cmd.description)>>
    /\ activeCheckInterval' = TRUE
    /\ \/ /\ ~activePulseInterval
          /\ cmd' = [cmd EXCEPT !.pc = "pulse"]
          /\ UNCHANGED <<autoStopTimer, autoStopDeadline>>
       \/ /\ activePulseInterval
          /\ ScheduleAutoStop
          /\ StartReturns
    /\ run' = [start |-> cmd.startTime, from |-> Len(activityLog), rolled |-> FALSE,
                stopTime |-> <<>>]
    /\ UNCHANGED <<now, daemon, activityLog, activePulseInterval, stp, poll, starts, syncing, client, pulsing, head, walk>>
    /\ live' = IF activePulseInterval THEN ArmAutoStop(StartBranchChecks(live))
               ELSE StartBranchChecks(live)

\* the heartbeat sendTempoPulseDirect sends for a session
Beat(session) ==
    [branch |-> session.branch, issueId |-> session.issueId,
     description |-> session.description, ok |-> remoteUp]

\* sendPulse after its getConfig(): nothing is sent without the user
\* configuration or without a session, else one heartbeat of the stored session
SendPulse ==
    beats' = IF configured /\ activeTracking # <<>>
             THEN Append(beats, Beat(activeTracking[1]))
             ELSE beats

\* local path: the initial sendPulse() resolves or throws (caught), the pulse
\* interval is armed, then scheduleAutoStop()
StartPulse ==
    /\ cmd.op = "start" /\ cmd.pc = "pulse"
    /\ SendPulse
    /\ activePulseInterval' = TRUE
    /\ ScheduleAutoStop
    /\ StartReturns
    /\ UNCHANGED <<now, daemon, store, activeCheckInterval, stp, poll, starts, run,
                   syncing, client, pulse, remoteUp, head, walk>>
    /\ live' = ArmAutoStop(SetTimer(live, "pulse"))

\* --------------------------------------------------------------- the heartbeat
\* the Remote becomes unreachable or reachable again
RemoteChanges ==
    /\ remoteUp' = ~remoteUp
    /\ UNCHANGED <<tracking, socketExists, syncing, client, pulse, beats, head, live, walk>>

\* the pulse interval fires while no sendPulse of it is in progress:
\* sendPulse awaits getConfig()
PulseFire ==
    /\ activePulseInterval
    /\ pulse.pc = "idle"
    /\ Len(beats) < MaxBeats
    /\ pulse' = [IdlePulse EXCEPT !.pc = "config"]
    /\ UNCHANGED <<tracking, socketExists, syncing, client, beats, remoteUp, head, live, walk>>

\* getConfig() resolves: without the user configuration or without a session
\* sendPulse returns, else it sends the heartbeat of the session it read
PulseGetConfig ==
    /\ pulse.pc = "config"
    /\ SendPulse
    /\ pulse' = IF configured /\ activeTracking # <<>>
                THEN [pc |-> "send", ok |-> remoteUp]
                ELSE IdlePulse
    /\ UNCHANGED <<tracking, socketExists, syncing, client, remoteUp, head, live, walk>>

\* sendTempoPulseDirect throws and the error leaves sendPulse: the interval
\* is cleared
PulseSendStopsOnThrow ==
    /\ pulse.pc = "send"
    /\ pulse' = [pulse EXCEPT !.pc = "idle"]
    /\ activePulseInterval' = pulse.ok
    /\ UNCHANGED <<now, registry, store, activeCheckInterval, autoStopTimer, autoStopDeadline,
                   cmd, stp, poll, starts, run, socketExists, syncing, client, beats, remoteUp, head, walk>>
    /\ live' = IF pulse.ok THEN live ELSE StopPulseSending(live)

\* sendTempoPulseDirect resolves, or throws and the catch of sendPulse drops
\* the error; the idle activation remembers which until the interval fires again
PulseSend ==
    /\ pulse.pc = "send"
    /\ pulse' = [pulse EXCEPT !.pc = "idle"]
    /\ UNCHANGED <<tracking, socketExists, syncing, client, beats, remoteUp, head, live, walk>>

\* ---------------------------------------------------------------- syncTempo
\* the daemon is not running: isDaemonRunning() finds no socket and syncTempo
\* goes on to its own loop

\* dateActivities: the entries of the date that are not synced
RECURSIVE SelectFrom(_, _)
SelectFrom(i, date) ==
    IF i > Len(activityLog) THEN <<>>
    ELSE IF DateOf(activityLog[i].startTime) = date /\ ~activityLog[i].synced
         THEN <<i>> \o SelectFrom(i + 1, date)
         ELSE SelectFrom(i + 1, date)

\* durationSeconds of the entry
DurationSeconds(e) == RoundSeconds(e.endTime - e.startTime)

\* the worklog createTempoWorklog is given for entry i
Worklog(i) ==
    [entry |-> i, issueId |-> activityLog[i].issueId,
     timeSpentSeconds |-> DurationSeconds(activityLog[i])]

\* syncTempo returns or throws
SyncEnds(outcome) ==
    /\ report' = <<[outcome |-> outcome, succeeded |-> sync.succeeded,
                    failed |-> sync.failed, rejected |-> sync.rejected]>>
    /\ sync' = IdleSync

\* the loop goes on to the next activity, after a continue, a success or a catch
SyncContinues(succeeded, failed, rejected) ==
    sync' = [sync EXCEPT !.pc = "loop", !.todo = Tail(sync.todo),
                         !.succeeded = @ + succeeded, !.failed = @ + failed,
                         !.rejected = @ + rejected]

\* the history of the step: a call starts it afresh, an iteration that ends
\* adds its activity with the counter it raised (none after a continue), a
\* worklog the Remote created adds its activity
Recorded ==
    processed' =
        IF sync.pc = "idle" THEN NothingProcessed
        ELSE [activities |->
                 IF sync.todo # <<>> /\ sync'.todo = Tail(sync.todo)
                 THEN Append(processed.activities,
                             [activity |-> Head(sync.todo),
                              how |-> IF sync'.succeeded > sync.succeeded THEN "succeeded"
                                      ELSE IF sync'.failed > sync.failed THEN "failed"
                                      ELSE "skipped"])
                 ELSE processed.activities,
              submitted |->
                 IF Len(remote') > Len(remote)
                 THEN Append(processed.submitted, remote'[Len(remote')].entry)
                 ELSE processed.submitted]

\* a call to the store (getConfig, getActivityLog, updateActivityLog) resolves
\* or throws
StoreResults == BOOLEAN

\* createTempoWorklog resolves once the Remote has created the worklog, or throws
RemoteResults == BOOLEAN

\* the caller invokes syncTempo({date})
SyncCall ==
    /\ sync.pc = "idle"
    /\ syncs < MaxSyncs
    /\ syncs' = syncs + 1
    /\ report' = <<>>
    /\ \E date \in Dates : sync' = [IdleSync EXCEPT !.pc = "config", !.date = date]
    /\ UNCHANGED <<tracking, socketExists, configured, remote, client, pulsing, head, live, walk>>
    /\ Recorded

\* getConfig() resolves or throws; without apiKey or jiraAccountId syncTempo returns
SyncGetConfig ==
    /\ sync.pc = "config"
    /\ \E ok \in StoreResults :
         IF ~ok THEN SyncEnds("raised")
         ELSE IF ~configured THEN SyncEnds("unconfigured")
         ELSE sync' = [sync EXCEPT !.pc = "load"] /\ UNCHANGED report
    /\ UNCHANGED <<tracking, socketExists, configured, remote, syncs, client, pulsing, head, live, walk>>
    /\ Recorded

\* getActivityLog() resolves or throws; the unsynced activities of the date
SyncLoad ==
    /\ sync.pc = "load"
    /\ \E ok \in StoreResults :
         IF ~ok THEN SyncEnds("raised")
         ELSE IF SelectFrom(1, sync.date) = <<>> THEN SyncEnds("nothing")
         ELSE /\ sync' = [sync EXCEPT !.pc = "loop", !.todo = SelectFrom(1, sync.date),
                                      !.dateActivities = SelectFrom(1, sync.date)]
              /\ UNCHANGED report
    /\ UNCHANGED <<tracking, socketExists, configured, remote, syncs, client, pulsing, head, live, walk>>
    /\ Recorded

\* SyncEntry asking for an issue id whether or not the entry has one
SyncEntryAlwaysPrompts ==
    /\ sync.pc = "loop" /\ sync.todo # <<>>
    /\ LET activity == activityLog[Head(sync.todo)] IN
         IF activity.endTime = NoEndTime THEN SyncContinues(0, 0, 0)
         ELSE IF DurationSeconds(activity) < MinSyncSeconds THEN SyncContinues(0, 0, 0)
         ELSE sync' = [sync EXCEPT !.pc = "prompt"]
    /\ UNCHANGED <<tracking, socketExists, configured, remote, syncs, report, client, pulsing, head, live, walk>>
    /\ Recorded

\* SyncEntry without the check of the issue id
SyncEntryIssueUnchecked ==
    /\ sync.pc = "loop" /\ sync.todo # <<>>
    /\ LET activity == activityLog[Head(sync.todo)] IN
         IF activity.endTime = NoEndTime THEN SyncContinues(0, 0, 0)
         ELSE IF DurationSeconds(activity) < MinSyncSeconds THEN SyncContinues(0, 0, 0)
         ELSE sync' = [sync EXCEPT !.pc = "submit"]
    /\ UNCHANGED <<tracking, socketExists, configured, remote, syncs, report, client, pulsing, head, live, walk>>
    /\ Recorded

\* the loop body up to its first await: the skip rules, then the issue id
SyncEntry ==
    /\ sync.pc = "loop" /\ sync.todo # <<>>
    /\ LET activity == activityLog[Head(sync.todo)] IN
         IF activity.endTime = NoEndTime THEN SyncContinues(0, 0, 0)
         ELSE IF DurationSeconds(activity) < MinSyncSeconds THEN SyncContinues(0, 0, 0)
         ELSE IF activity.issueId = 0 THEN sync' = [sync EXCEPT !.pc = "prompt"]
         ELSE sync' = [sync EXCEPT !.pc = "submit"]
    /\ UNCHANGED <<tracking, socketExists, configured, remote, syncs, report, client, pulsing, head, live, walk>>
    /\ Recorded

\* the prompt resolves with an issue id; updateActivityLog(id, {issueId})
\* resolves, or throws into the catch of the loop body
SyncPrompt ==
    /\ sync.pc = "prompt"
    /\ \E providedIssueId \in ProvidedIssueIds, ok \in StoreResults :
         IF ok
         THEN /\ activityLog' = [activityLog EXCEPT
                                   ![Head(sync.todo)].issueId = providedIssueId]
              /\ sync' = [sync EXCEPT !.pc = "submit"]
         ELSE /\ SyncContinues(0, 1, 0)
              /\ UNCHANGED activityLog
    /\ UNCHANGED <<now, registry, activeTracking, timers, cmd, stp, poll, starts, run,
                   socketExists, configured, remote, syncs, report, client, pulsing, head, live, walk>>
    /\ Recorded

\* SyncSubmit going on to mark the entry whatever the Remote answered
SyncSubmitMarksAnyway ==
    /\ sync.pc = "submit"
    /\ \E ok \in StoreResults, created \in RemoteResults :
         /\ remote' = IF ok /\ created THEN Append(remote, Worklog(Head(sync.todo)))
                       ELSE remote
         /\ sync' = [sync EXCEPT !.pc = "mark"]
    /\ UNCHANGED <<tracking, socketExists, configured, syncs, report, client, pulsing, head, live, walk>>
    /\ Recorded

\* SyncSubmit without the catch of the loop body
SyncSubmitUncaught ==
    /\ sync.pc = "submit"
    /\ \E ok \in StoreResults, created \in RemoteResults :
         IF ok /\ created
         THEN /\ remote' = Append(remote, Worklog(Head(sync.todo)))
              /\ sync' = [sync EXCEPT !.pc = "mark"]
              /\ UNCHANGED report
         ELSE /\ SyncEnds("raised")
              /\ UNCHANGED remote
    /\ UNCHANGED <<tracking, socketExists, configured, syncs, client, pulsing, head, live, walk>>
    /\ Recorded

\* getConfig() and createTempoWorklog(...) resolve, or one of them throws into
\* the catch of the loop body
SyncSubmit ==
    /\ sync.pc = "submit"
    /\ \E ok \in StoreResults, created \in RemoteResults :
         IF ok /\ created
         THEN /\ remote' = Append(remote, Worklog(Head(sync.todo)))
              /\ sync' = [sync EXCEPT !.pc = "mark"]
         ELSE /\ SyncContinues(0, 1, IF ok THEN 1 ELSE 0)
              /\ UNCHANGED remote
    /\ UNCHANGED <<tracking, socketExists, configured, syncs, report, client, pulsing, head, live, walk>>
    /\ Recorded

\* SyncMark with successCount++ ahead of updateActivityLog: a throw of the
\* store counts the entry as succeeded and as failed
SyncMarkCountsFirst ==
    /\ sync.pc = "mark"
    /\ \E ok \in StoreResults :
         IF ok
         THEN /\ activityLog' = [activityLog EXCEPT ![Head(sync.todo)].synced = TRUE]
              /\ SyncContinues(1, 0, 0)
         ELSE /\ SyncContinues(1, 1, 0)
              /\ UNCHANGED activityLog
    /\ UNCHANGED <<now, registry, activeTracking, timers, cmd, stp, poll, starts, run,
                   socketExists, configured, remote, syncs, report, client, pulsing, head, live, walk>>
    /\ Recorded

\* updateActivityLog(id, {synced: true}) resolves, or throws into the catch
SyncMark ==
    /\ sync.pc = "mark"
    /\ \E ok \in StoreResults :
         IF ok
         THEN /\ activityLog' = [activityLog EXCEPT ![Head(sync.todo)].synced = TRUE]
              /\ SyncContinues(1, 0, 0)
         ELSE /\ SyncContinues(0, 1, 0)
              /\ UNCHANGED activityLog
    /\ UNCHANGED <<now, registry, activeTracking, timers, cmd, stp, poll, starts, run,
                   socketExists, configured, remote, syncs, report, client, pulsing, head, live, walk>>
    /\ Recorded

\* the loop is over: the summary is printed and syncTempo returns
SyncSummary ==
    /\ sync.pc = "loop" /\ sync.todo = <<>>
    /\ SyncEnds("summary")
    /\ UNCHANGED <<tracking, socketExists, configured, remote, syncs, client, pulsing, head, live, walk>>
    /\ Recorded

\* --------------------------------------------------------- the daemon client
\* the commands that probe the daemon and have an in-process path of their own
ProbingCommands == {"start", "stop", "status", "sync"}
\* startTrackingViaDaemonWithErrorHandling, stopTrackingViaDaemonWithErrorHandling
ViaDaemonCommands == {"viaStart", "viaStop"}
CommandNames == ProbingCommands \cup ViaDaemonCommands

\* the daemon operations a command makes once the daemon is taken to run
OpsOf(name) ==
    CASE name = "start" -> <<"status", "start", "status">>
      [] name = "stop" -> <<"stop">>
      [] name = "status" -> <<"status">>
      [] name = "sync" -> <<"sync">>
      [] name = "viaStart" -> <<"start">>
      [] name = "viaStop" -> <<"stop">>

DaemonOps == {"start", "stop", "status", "sync"}

\* what client.connect() resolves with, when it resolves: true only if a
\* daemon listens on the socket
ConnectResults == IF socketExists THEN BOOLEAN ELSE {FALSE}

\* client.connect() has resolved with true and the request is written: a
\* client still connected goes on using its connection
Connected == [connected |-> TRUE, sent |-> IF ipc.connected THEN ipc.sent + 1 ELSE 1]

\* client.disconnect()
Disconnected == [ipc EXCEPT !.connected = FALSE]

\* the command returns: handled by the daemon, by its in-process path
\* (local), or by neither
CmdEnds(unreachable, local) ==
    /\ ccmd' = IdleCommand
    /\ lastCmd' = <<[name |-> ccmd.name, unreachable |-> unreachable, local |-> local]>>

\* a command is invoked
CmdBegin ==
    /\ ccmd.pc = "idle"
    /\ \E name \in CommandNames :
         ccmd' = [name |-> name, ops |-> OpsOf(name),
                  pc |-> IF name \in ProbingCommands THEN "probe" ELSE "ops"]
    /\ lastCmd' = <<>>
    /\ UNCHANGED <<tracking, syncing, socketExists, ipc, dop, probeTimer, staleTimer, pulsing, head, live, walk>>

\* isDaemonRunning returns to the command: on with the daemon, or on to the
\* in-process path
ProbeReturns(result) ==
    /\ dop' = IdleOp
    /\ IF result
       THEN ccmd' = [ccmd EXCEPT !.pc = "ops"] /\ UNCHANGED lastCmd
       ELSE CmdEnds(TRUE, TRUE)

\* isDaemonRunning: fs.existsSync(socketPath), then client.connect() is called
ProbeBegin ==
    /\ ccmd.pc = "probe" /\ dop.op = "none"
    /\ IF socketExists
       THEN /\ dop' = [op |-> "probe", pc |-> "connect", sawSocket |-> TRUE]
            /\ UNCHANGED <<ccmd, lastCmd>>
       ELSE ProbeReturns(FALSE)
    /\ UNCHANGED <<tracking, syncing, socketExists, ipc, probeTimer, staleTimer, pulsing, head, live, walk>>

\* client.connect() resolves: false returns false; true sends the status
\* request and arms testTimeout
ProbeConnect ==
    /\ dop.op = "probe" /\ dop.pc = "connect"
    /\ \E connected \in ConnectResults :
         IF connected
         THEN /\ ipc' = Connected
              /\ probeTimer' = "armed"
              /\ dop' = [dop EXCEPT !.pc = "request"]
              /\ UNCHANGED <<ccmd, lastCmd>>
         ELSE /\ ProbeReturns(FALSE)
              /\ UNCHANGED <<ipc, probeTimer>>
    /\ UNCHANGED <<tracking, syncing, socketExists, staleTimer, pulsing, head, live, walk>>

\* the status response arrives: clearTimeout, true wins the race, the client
\* is disconnected
ProbeStatusResolves ==
    /\ dop.op = "probe" /\ dop.pc = "request"
    /\ socketExists /\ ipc.connected
    /\ probeTimer' = "cleared"
    /\ ipc' = Disconnected
    /\ ProbeReturns(TRUE)
    /\ UNCHANGED <<tracking, syncing, socketExists, staleTimer, pulsing, head, live, walk>>

\* the status request rejects: the catch answers false and the client is
\* disconnected; testTimeout is not cleared
ProbeStatusRejects ==
    /\ dop.op = "probe" /\ dop.pc = "request"
    /\ probeTimer' = "null"
    /\ staleTimer' = TRUE
    /\ ipc' = Disconnected
    /\ ProbeReturns(FALSE)
    /\ UNCHANGED <<tracking, syncing, socketExists, pulsing, head, live, walk>>

\* SetTimeout resolving the race with true
ProbeTimeoutAnswersTrue ==
    /\ dop.op = "probe" /\ dop.pc = "request"
    /\ probeTimer = "armed"
    /\ probeTimer' = "fired"
    /\ ipc' = Disconnected
    /\ ProbeReturns(TRUE)
    /\ UNCHANGED <<tracking, syncing, socketExists, staleTimer, pulsing, head, live, walk>>

\* testTimeout fires before the status response: the client is
\* disconnected and false wins the race
ProbeTimeoutFires ==
    /\ dop.op = "probe" /\ dop.pc = "request"
    /\ probeTimer = "armed"
    /\ probeTimer' = "fired"
    /\ ipc' = Disconnected
    /\ ProbeReturns(FALSE)
    /\ UNCHANGED <<tracking, syncing, socketExists, staleTimer, pulsing, head, live, walk>>

\* a testTimeout left armed fires after its isDaemonRunning returned: it
\* disconnects the singleton client
StaleTimeoutFires ==
    /\ staleTimer
    /\ staleTimer' = FALSE
    /\ ipc' = Disconnected
    /\ UNCHANGED <<tracking, syncing, socketExists, dop, ccmd, probeTimer, lastCmd, pulsing, head, live, walk>>

\* a ...ViaDaemon function throws: the probing commands catch and go on to
\* their in-process path, the WithErrorHandling wrappers print the error
OpThrows(unreachable) ==
    /\ dop' = IdleOp
    /\ CmdEnds(unreachable, ccmd.name \in ProbingCommands)

\* a ...ViaDaemon function returns; found: the status reports the session
\* looked for
OpReturns(found) ==
    /\ dop' = IdleOp
    /\ IF ccmd.name = "start" /\ Len(ccmd.ops) > 1
       THEN IF Len(ccmd.ops) = 3 /\ found
            THEN CmdEnds(FALSE, FALSE)
            ELSE ccmd' = [ccmd EXCEPT !.ops = Tail(ccmd.ops)] /\ UNCHANGED lastCmd
       ELSE IF dop.op = "status"
            THEN CmdEnds(FALSE, ~found)
            ELSE CmdEnds(FALSE, FALSE)

\* the command calls its next ...ViaDaemon function: client.connect() is called
OpBegin ==
    /\ ccmd.pc = "ops" /\ dop.op = "none"
    /\ dop' = [op |-> Head(ccmd.ops), pc |-> "connect", sawSocket |-> FALSE]
    /\ UNCHANGED <<tracking, syncing, socketExists, ipc, ccmd, probeTimer, staleTimer,
                   lastCmd, pulsing, head, live, walk>>

\* client.connect() resolves: false throws "Daemon is not running"; true
\* sends the request
OpConnect ==
    /\ dop.op \in DaemonOps /\ dop.pc = "connect"
    /\ \E connected \in ConnectResults :
         IF connected
         THEN /\ ipc' = Connected
              /\ dop' = [dop EXCEPT !.pc = "request"]
              /\ UNCHANGED <<ccmd, lastCmd>>
         ELSE /\ OpThrows(TRUE)
              /\ UNCHANGED ipc
    /\ UNCHANGED <<tracking, syncing, socketExists, probeTimer, staleTimer, pulsing, head, live, walk>>

\* OpResolves without the disconnect of the finally block
OpResolvesStaysConnected ==
    /\ dop.op \in DaemonOps /\ dop.pc = "request"
    /\ socketExists /\ ipc.connected
    /\ \E found \in BOOLEAN : OpReturns(found)
    /\ UNCHANGED <<tracking, syncing, socketExists, ipc, probeTimer, staleTimer, pulsing, head, live, walk>>

\* the response arrives: the finally block disconnects and the function returns
OpResolves ==
    /\ dop.op \in DaemonOps /\ dop.pc = "request"
    /\ socketExists /\ ipc.connected
    /\ ipc' = Disconnected
    /\ \E found \in BOOLEAN : OpReturns(found)
    /\ UNCHANGED <<tracking, syncing, socketExists, probeTimer, staleTimer, pulsing, head, live, walk>>

\* the request rejects: the catch disconnects and throws on, the finally
\* block disconnects again
OpRejects ==
    /\ dop.op \in DaemonOps /\ dop.pc = "request"
    /\ ipc' = Disconnected
    /\ OpThrows(FALSE)
    /\ UNCHANGED <<tracking, syncing, socketExists, probeTimer, staleTimer, pulsing, head, live, walk>>

\* ----------------------------------------------------------- specifications
\* the steps of a startTracking or stopTracking command
Command ==
    \/ StartCall
    \/ StartProbe
    \/ StartGetConfig
    \/ StartPrompt
    \/ StartLocalBranch
    \/ StartCreate
    \/ StartPulse
    \/ StopCall
    \/ \E t \in Threads : StopProbe(t)
    \/ \E t \in Threads : StopGetConfig(t)
    \/ \E t \in Threads : StopAppend(t)
    \/ \E t \in Threads : StopClear(t)

\* In-process tracking, no daemon installed: the commands, the branch check
\* interval and the auto-stop timer.
Next ==
    \/ Tick
    \/ Command
    \/ AutoStopFire
    \/ PollFire
    \/ PollOracle
    \/ PollAppend
    \/ PollUpdate

Spec == Init /\ [][Next]_vars

\* The commands with a daemon that comes and goes, and the auto-stop timer;
\* no branch check interval comes due.
DaemonNext ==
    \/ Tick
    \/ DaemonStart
    \/ DaemonStop
    \/ Command
    \/ StartDaemonBranch
    \/ StartDaemonStatus
    \/ StartDaemonStart
    \/ StartDaemonVerify
    \/ AutoStopFire

DaemonSpec == Init /\ [][DaemonNext]_vars

\* the entries a log may hold when syncTempo is called
SyncEntries ==
    {Entry(Session(RepoA, "main", date * DayMs, issueId, ""), NoEndTime) :
        date \in Dates, issueId \in {0, 8}}
    \cup {Entry(Session(RepoA, "main", date * DayMs, issueId, ""), date * DayMs + d) :
        date \in Dates, issueId \in {0, 8}, d \in Durations}

RECURSIVE Logs(_)
Logs(n) ==
    IF n = 0 THEN {<<>>}
    ELSE Logs(n - 1) \cup {Append(l, e) : l \in {x \in Logs(n - 1) : Len(x) = n - 1},
                                          e \in SyncEntries}

\* syncTempo over a log of closed segments, none synced, no session open
SyncInit ==
    /\ configured \in BOOLEAN
    /\ SyncAtRest
    /\ ClientAtRest
    /\ PulseAtRest
    /\ walk = NoWalk
    /\ NoTimers
    /\ HeadAtRest
    /\ now = 0
    /\ socketExists = FALSE
    /\ registry = [d \in GitDirs |-> <<>>]
    /\ activeTracking = <<>>
    /\ activityLog \in Logs(MaxLog)
    /\ activeCheckInterval = FALSE
    /\ activePulseInterval = FALSE
    /\ autoStopTimer = "null"
    /\ autoStopDeadline = 0
    /\ cmd = IdleCmd
    /\ stp = [t \in Threads |-> IdleStop]
    /\ poll = IdlePoll
    /\ starts = 0
    /\ run = NoRun

SyncNext ==
    \/ SyncCall
    \/ SyncGetConfig
    \/ SyncLoad
    \/ SyncEntry
    \/ SyncPrompt
    \/ SyncSubmit
    \/ SyncMark
    \/ SyncSummary

SyncSpec == SyncInit /\ [][SyncNext]_vars

IpcNext ==
    \/ DaemonStart
    \/ DaemonStop
    \/ CmdBegin
    \/ ProbeBegin
    \/ ProbeConnect
    \/ ProbeStatusResolves
    \/ ProbeStatusRejects
    \/ ProbeTimeoutFires
    \/ StaleTimeoutFires
    \/ OpBegin
    \/ OpConnect
    \/ OpResolves
    \/ OpRejects

\* the commands' use of the daemon client
IpcSpec == Init /\ [][IpcNext]_vars

\* what the process itself does next happens, and an armed timer fires; the
\* daemon owes nothing: connect() and the requests may stay pending
IpcFairSpec ==
    /\ IpcSpec
    /\ WF_vars(ProbeBegin)
    /\ WF_vars(OpBegin)
    /\ WF_vars(ProbeTimeoutFires)
    /\ WF_vars(StaleTimeoutFires)

\* The commands alone, with a store whose writes may throw while
\* stopTracking closes the session.
CloseFailNext ==
    \/ Tick
    \/ Command
    \/ \E t \in Threads : StopAppendFails(t)
    \/ \E t \in Threads : StopClearFails(t)

CloseFailSpec == Init /\ [][CloseFailNext]_vars

\* The commands alone, one after the other, and the clock.
CommandNext ==
    \/ Tick
    \/ Command

CommandSpec == Init /\ [][CommandNext]_vars

\* ------------------------------------------------------------ timed scenarios
\* Time in steps of five minutes: the branch check interval fires every
\* third step after startBranchChecks(), MAX_TRACKING_TIME_MS lies beyond
\* the end. Commands and branch checks take no time and do not overlap.
PollPeriod == 3

ScInit ==
    /\ head \in [branch : Branches, since : {NoChange}]
    /\ configured = TRUE
    /\ SyncAtRest
    /\ ClientAtRest
    /\ PulseAtRest
    /\ walk = NoWalk
    /\ NoTimers
    /\ now = 0
    /\ socketExists = FALSE
    /\ registry = [d \in GitDirs |-> <<>>]
    /\ activeTracking = <<>>
    /\ activityLog = <<>>
    /\ activeCheckInterval = FALSE
    /\ activePulseInterval = FALSE
    /\ autoStopTimer = "null"
    /\ autoStopDeadline = 0
    /\ cmd = IdleCmd
    /\ stp = [t \in Threads |-> IdleStop]
    /\ poll = IdlePoll
    /\ starts = 0
    /\ run = NoRun

\* nothing of the program is in progress
Quiet == cmd.op = "none" /\ poll.pc = "idle"

\* somebody checks another branch out, once
HeadChanges ==
    /\ Quiet
    /\ head.since = NoChange
    /\ \E branch \in Branches \ {head.branch} :
         head' = [branch |-> branch, since |-> now]
    /\ UNCHANGED <<tracking, socketExists, syncing, client, pulsing, live, walk>>

\* five minutes pass; when that completes a period of the branch check
\* interval, the interval fires and checkCurrentBranch's getConfig() resolves
ScTick ==
    /\ Quiet
    /\ now < ScenarioEnd
    /\ now' = now + 1
    /\ IF activeCheckInterval /\ (now + 1 - run.start) % PollPeriod = 0
         THEN IF activeTracking = <<>>
              THEN activeCheckInterval' = FALSE /\ poll' = IdlePoll
              ELSE /\ poll' = [IdlePoll EXCEPT !.pc = "oracle", !.snap = activeTracking]
                   /\ UNCHANGED activeCheckInterval
         ELSE UNCHANGED <<poll, activeCheckInterval>>
    /\ UNCHANGED <<daemon, store, activePulseInterval, autoStopTimer, autoStopDeadline,
                   cmd, stp, starts, run, syncing, client, pulsing, head, walk>>
    /\ live' = IF activeCheckInterval' THEN live ELSE StopBranchChecks(live)

\* a command started while no branch check is in progress; its
\* getCurrentBranch(gitRoot) answers the branch that is checked out
ScCommand ==
    /\ poll.pc = "idle"
    /\ Command
    /\ (cmd.op = "start" /\ cmd.pc = "branch")
         => (cmd'.pc = "create" /\ cmd'.branch = head.branch)

\* getCurrentBranch of the branch check answers the branch that is checked
\* out since T and the entry of the old segment ends at T
ScPollOracleBackdates ==
    /\ poll.pc = "oracle"
    /\ poll' = IF head.branch = poll.snap[1].branch THEN IdlePoll
               ELSE [poll EXCEPT !.pc = "append", !.branch = head.branch,
                                 !.endTime = head.since]
    /\ UNCHANGED <<now, daemon, store, timers, cmd, stp, starts, run, syncing, client,
                   pulsing, head, live, walk>>

\* getCurrentBranch of the branch check answers the branch that is checked out
ScPollOracle ==
    /\ PollOracle
    /\ IF head.branch = poll.snap[1].branch THEN poll' = IdlePoll
         ELSE poll'.pc = "append" /\ poll'.branch = head.branch

ScenarioNext ==
    \/ HeadChanges
    \/ ScTick
    \/ ScCommand
    \/ ScPollOracle
    \/ PollAppend
    \/ PollUpdate

ScenarioSpec == ScInit /\ [][ScenarioNext]_vars

\* The commands one after the other, the pulse interval and a Remote that
\* comes and goes.
PulseNext ==
    \/ Tick
    \/ Command
    \/ RemoteChanges
    \/ PulseFire
    \/ PulseGetConfig
    \/ PulseSend

PulseSpec == Init /\ [][PulseNext]_vars

\* ----------------------------------------------------- findGitRoot by steps
\* A path string is absolute or relative and has components: "/" and "" have
\* none, "." is the relative path of the one component ".".
Path(abs, parts) == [abs |-> abs, parts |-> parts]
Dot == Path(FALSE, <<".">>)
WalkNames == {"a", "src"}

RECURSIVE PartsUpTo(_)
PartsUpTo(n) ==
    IF n = 0 THEN {<<>>}
    ELSE PartsUpTo(n - 1)
         \cup {Append(q, c) : q \in {x \in PartsUpTo(n - 1) : Len(x) = n - 1},
                              c \in WalkNames}

\* the start paths: absolute ones as process.cwd() gives them, and relative ones
StartPaths == {Path(abs, q) : abs \in BOOLEAN, q \in PartsUpTo(MaxDepth)} \cup {Dot}

\* the file trees: which directories hold .git, at most two of them
FileTrees == {t \in SUBSET PartsUpTo(MaxDepth) : Cardinality(t) <= 2}

\* path.parse(p).root: "/" of an absolute path, "" of a relative one
ParseRoot(p) == Path(p.abs, <<>>)

\* path.dirname(p): "/" of "/" and of "/a", "." of "a", of "." and of ""
PathDirname(p) ==
    IF p.abs THEN Path(TRUE, IF p.parts = <<>> THEN <<>> ELSE Dirname(p.parts))
    ELSE IF Len(p.parts) <= 1 THEN Dot
    ELSE Path(FALSE, Dirname(p.parts))

\* the directory a path names, a relative one from process.cwd()
Resolve(p, cwd) ==
    IF p.abs THEN p.parts
    ELSE IF p = Dot THEN cwd
    ELSE cwd \o p.parts

\* fs.existsSync(path.join(currentDir, ".git"))
ExistsGit(p) == Resolve(p, walk.cwd) \in walk.tree

\* findGitRoot(startDirectory) is called: any file tree, any working
\* directory, any start path
WalkInit ==
    /\ walk \in {[pc |-> "loop", tree |-> tree, cwd |-> cwd, start |-> start,
                   currentDir |-> start, result |-> <<>>] :
                      tree \in FileTrees,
                      cwd \in PartsUpTo(1),
                      start \in StartPaths}
    /\ configured = TRUE
    /\ SyncAtRest
    /\ ClientAtRest
    /\ PulseAtRest
    /\ NoTimers
    /\ HeadAtRest
    /\ now = 0
    /\ socketExists = FALSE
    /\ registry = [d \in GitDirs |-> <<>>]
    /\ activeTracking = <<>>
    /\ activityLog = <<>>
    /\ activeCheckInterval = FALSE
    /\ activePulseInterval = FALSE
    /\ autoStopTimer = "null"
    /\ autoStopDeadline = 0
    /\ cmd = IdleCmd
    /\ stp = [t \in Threads |-> IdleStop]
    /\ poll = IdlePoll
    /\ starts = 0
    /\ run = NoRun

WalkRest == <<tracking, socketExists, syncing, client, pulsing, head, live>>

\* the while condition fails: currentDir is the root of its path; return null
WalkReturnsNull ==
    /\ walk.pc = "loop"
    /\ walk.currentDir = ParseRoot(walk.currentDir)
    /\ walk' = [walk EXCEPT !.pc = "returned", !.result = <<>>]
    /\ UNCHANGED WalkRest

\* in the loop, currentDir holds .git: return currentDir
WalkReturnsFound ==
    /\ walk.pc = "loop"
    /\ walk.currentDir # ParseRoot(walk.currentDir)
    /\ ExistsGit(walk.currentDir)
    /\ walk' = [walk EXCEPT !.pc = "returned", !.result = <<walk.currentDir>>]
    /\ UNCHANGED WalkRest

\* in the loop, no .git: currentDir = path.dirname(currentDir)
WalkUp ==
    /\ walk.pc = "loop"
    /\ walk.currentDir # ParseRoot(walk.currentDir)
    /\ ~ExistsGit(walk.currentDir)
    /\ walk' = [walk EXCEPT !.currentDir = PathDirname(walk.currentDir)]
    /\ UNCHANGED WalkRest

WalkNext ==
    \/ WalkReturnsNull
    \/ WalkReturnsFound
    \/ WalkUp

WalkSpec == WalkInit /\ [][WalkNext]_vars

\* The commands with both intervals, the branch check and the pulse, whose
\* callbacks run between the steps of a command and of each other.
IntervalsNext ==
    \/ Command
    \/ PollFire
    \/ PollOracle
    \/ PollAppend
    \/ PollUpdate
    \/ PulseFire
    \/ PulseGetConfig
    \/ PulseSend

IntervalsSpec == Init /\ [][IntervalsNext]_vars

\* ------------------------------------------------------------ the properties
\* stopTracking returns in activation t
StopEnds(t) == stp[t].pc # "idle" /\ stp'[t].pc = "idle"

\* a step of the command in progress, its nested stopTracking included
CommandStep == cmd' # cmd \/ stp'["cmd"] # stp["cmd"]

\* the entries the activity log received since the latest local session began
RunEntries == SubSeq(activityLog, run.from + 1, Len(activityLog))

\* entries, taken in some order of ascending startTime, cover [first, last)
\* without gap or overlap
Tiles(entries, first, last) ==
    /\ Len(entries) >= 1
    /\ \E p \in Permutations(1..Len(entries)) :
         /\ \A i \in 1..(Len(entries) - 1) :
              /\ entries[p[i]].startTime <= entries[p[i + 1]].startTime
              /\ entries[p[i]].endTime = entries[p[i + 1]].startTime
         /\ entries[p[1]].startTime = first
         /\ entries[p[Len(entries)]].endTime = last

\* C1: once a tracking run has been stopped, the entries it produced, ordered
\* by startTime, tile the run: the first starts at the session's start, each
\* ends where the next starts, and the last ends at the stop time.
C1_SegmentsTile ==
    run.stopTime # <<>> => Tiles(RunEntries, run.start, run.stopTime[1])

\* C2: once startTracking has found an active session of its directory, no
\* step of the command changes the session, the timers or the activity log.
C2_StartOnSessionMutatesNothing ==
    [][(/\ cmd.op = "start" /\ cmd.pc \in {"prompt", "nestedStop"}
        /\ activeTracking # <<>>
        /\ activeTracking[1].directory = cmd.root[1]
        /\ CommandStep)
       => UNCHANGED <<activeTracking, activityLog, timers>>]_vars

\* C3: a directory never has a session in the daemon's registry and a session
\* in the local store at once.
C3_OneSessionPerDirectory ==
    \A d \in GitDirs :
        ~(registry[d] # <<>> /\ activeTracking # <<>> /\ activeTracking[1].directory = d)

\* the stored session of the directory, local or of the daemon: <<>> or <<session>>
SessionsOf(d) ==
    {x \in {registry[d], activeTracking} : x # <<>> /\ x[1].directory = d}

\* C4: the entry a stopTracking appends is [segmentStart, now) of a session
\* that is active at that moment, with its branch, issueId and description;
\* and when stopTracking returns for a directory that had a session, the
\* directory has none.
C4_StopClosesTheSession ==
    [][\A t \in Threads :
         /\ (stp'[t] # stp[t] /\ Len(activityLog') = Len(activityLog) + 1)
              => \E x \in UNION {SessionsOf(d) : d \in GitDirs} :
                    /\ activityLog' = Append(activityLog,
                                             Entry(x[1], activityLog'[Len(activityLog')].endTime))
                    /\ activityLog'[Len(activityLog')].endTime <= now
         /\ (StopEnds(t) /\ stp[t].root # <<>> /\ SessionsOf(stp[t].root[1]) # {})
              => (registry'[stp[t].root[1]] = <<>>
                  /\ (activeTracking' = <<>>
                      \/ activeTracking'[1].directory # stp[t].root[1]))]_vars

\* C5: a rollover appends an entry with the session's old branch, then updates
\* the session in place: the new branch, segmentStart the entry's endTime, the
\* other fields as they were; the session is not removed.
C5_RolloverInPlace ==
    [][/\ (poll.pc = "append" /\ poll'.pc = "update")
            => /\ activeTracking # <<>>
               /\ activeTracking[1].branch # poll.branch
               /\ activityLog' = Append(activityLog, Entry(activeTracking[1], poll.endTime))
       /\ (poll.pc = "update" /\ poll'.pc = "idle")
            => /\ activeTracking # <<>>
               /\ activeTracking' = <<[activeTracking[1] EXCEPT !.branch = poll.branch,
                                                                  !.startTime = poll.endTime]>>]_vars

\* two entries close the same segment
SameSegment(e, f) ==
    /\ e.directory = f.directory /\ e.startTime = f.startTime
    /\ e.branch = f.branch /\ e.issueId = f.issueId

\* C6: a segment is closed exactly once: the activity log never holds two
\* entries of the same segment, whatever poll and stop were pending together.
C6_SegmentClosedOnce ==
    \A i, j \in DOMAIN activityLog : i < j => ~SameSegment(activityLog[i], activityLog[j])

\* C7: when the auto-stop ends a session that saw no manual stop and no branch
\* change, the run has exactly one entry, ending at creation time + the maximum
\* tracking duration, and no session is left.
C7_AutoStopExact ==
    [][(StopEnds("auto") /\ run.stopTime = <<>> /\ ~run.rolled)
       => /\ activeTracking' = <<>>
          /\ Len(activityLog') = run.from + 1
          /\ activityLog'[Len(activityLog')].endTime = run.start + MAX_TRACKING_TIME_MS]_vars

\* the auto-stop timer is armed, or armed anew, in this step
Arms == autoStopTimer' = "armed"
        /\ (autoStopTimer # "armed" \/ autoStopDeadline' # autoStopDeadline)

\* C8: the deadline of the auto-stop timer is creation time + the maximum
\* tracking duration; only the start of a session arms it, a rollover leaves
\* timer and deadline alone, and it fires only from armed, once.
C8_DeadlineFixedAtCreation ==
    [][/\ Arms => /\ cmd.op = "start" /\ cmd.pc \in {"create", "pulse"}
                  /\ autoStopDeadline' = cmd.startTime + MAX_TRACKING_TIME_MS
       /\ poll' # poll => UNCHANGED <<autoStopTimer, autoStopDeadline>>
       /\ (autoStopTimer' = "fired" /\ autoStopTimer # "fired")
            => (autoStopTimer = "armed" /\ now >= autoStopDeadline)]_vars

\* C9: with no session stored, no timer is armed.
C9_NoTimerWithoutSession ==
    activeTracking = <<>>
        => ~activeCheckInterval /\ ~activePulseInterval /\ autoStopTimer # "armed"

\* C10: a stopTracking for a directory without a session changes neither the
\* session of another directory, nor its timers, nor the activity log.
C10_StopElsewhereChangesNothing ==
    [][\A t \in Threads :
         (/\ stp'[t] # stp[t]
          /\ stp[t].pc # "idle"
          /\ stp[t].root # <<>>
          /\ SessionsOf(stp[t].root[1]) = {}
          /\ activeTracking # <<>>)
         => UNCHANGED <<activeTracking, activityLog, timers>>]_vars

\* ------------------------------------------------------- syncTempo properties
\* the entries the Remote holds a worklog of
Submitted == {remote[k].entry : k \in DOMAIN remote}

\* a step in which the Remote creates a worklog
Submits == Len(remote') > Len(remote)

\* C11: syncTempo submits only entries that are still synced = false, and an
\* entry the Remote accepted in an earlier call is never submitted again.
C11_SyncedOnceSubmittedOnce ==
    [][Submits =>
         /\ ~activityLog[Head(sync.todo)].synced
         /\ Head(sync.todo) \notin Submitted]_vars

C13_SyncedOnlyAfterSubmission ==
    \A i \in DOMAIN activityLog : activityLog[i].synced => i \in Submitted

C13_Witness ==
    \E i \in DOMAIN activityLog : activityLog[i].synced /\ i \in Submitted

\* the entry has no endTime, or lasted less than the minimum
TooShort(e) ==
    \/ e.endTime = NoEndTime
    \/ e.endTime - e.startTime < MinSyncSeconds * MsPerSecond

\* C14: an unsynced entry with no endTime, or with a duration below 60 seconds,
\* is passed over: the loop goes on to the next entry with both counts as they
\* were, nothing is submitted and the entry stays synced = false.
C14_ShortEntriesSkipped ==
    [][(sync.pc = "loop" /\ sync.todo # <<>> /\ sync' # sync
          /\ TooShort(activityLog[Head(sync.todo)])) =>
         /\ sync' = [sync EXCEPT !.todo = Tail(sync.todo)]
         /\ UNCHANGED <<activityLog, remote>>]_vars

\* C15: no worklog is created without an issue id, and an entry that has no
\* issue id is neither submitted nor synced.
C15_NoIssueNoSubmission ==
    /\ \A k \in DOMAIN remote : remote[k].issueId \notin {0, NoIssue}
    /\ \A i \in DOMAIN activityLog :
         activityLog[i].issueId \in {0, NoIssue} =>
             ~activityLog[i].synced /\ i \notin Submitted

\* syncTempo has returned its summary, and an entry long enough to submit
\* that it visited is still without an issue id
C15_Witness ==
    /\ report # <<>> /\ report[1].outcome = "summary"
    /\ \E i \in DOMAIN activityLog :
         /\ activityLog[i].issueId = 0
         /\ ~TooShort(activityLog[i])
         /\ \E k \in DOMAIN remote : remote[k].entry # i

C17_ProbeReturns == (ccmd.pc = "probe") ~> (ccmd.pc # "probe")

\* isDaemonRunning returns in this step
ProbeEnds == ccmd.pc = "probe" /\ ccmd'.pc # "probe"

C19_OneRequestPerConnection ==
    [][/\ ipc'.sent <= 1
       /\ (dop.op \in DaemonOps /\ dop'.op = "none") => ~ipc'.connected]_vars

\* startTracking was handled by the daemon: three operations, one after the other
C19_Witness ==
    /\ lastCmd # <<>>
    /\ lastCmd[1] = [name |-> "start", unreachable |-> FALSE, local |-> FALSE]
    /\ ipc = [connected |-> FALSE, sent |-> 1]

\* C20: a command that found the daemon unreachable went on to its
\* in-process path.
C20_UnreachableFallsBack ==
    (lastCmd # <<>> /\ lastCmd[1].unreachable) => lastCmd[1].local

\* ------------------------------------------------ session lifetime properties
\* C27: a session appears in the store only in the step of startTracking that
\* creates it, and in the daemon's registry only in the step that sends
\* startTracking to the daemon: no other step, timer callbacks included, brings
\* a removed session back.
C27_OnlyStartCreatesSessions ==
    [][/\ (activeTracking = <<>> /\ activeTracking' # <<>>)
            => (cmd.op = "start" /\ cmd.pc = "create" /\ cmd' # cmd)
       /\ \A d \in GitDirs :
            (registry[d] = <<>> /\ registry'[d] # <<>>)
                => (cmd.op = "start" /\ cmd.pc = "dStart" /\ cmd' # cmd)]_vars

\* C29: when the stopTracking of the auto-stop timer returns, run from inside
\* the repository of the stored session, that session has an entry in the
\* activity log and is removed, and the branch check and pulse intervals are
\* cancelled.
C29_AutoStopClosesLocalSession ==
    [][(/\ StopEnds("auto")
        /\ activeTracking # <<>>
        /\ stp["auto"].root = <<activeTracking[1].directory>>)
       => /\ activeTracking' = <<>>
          /\ \E i \in DOMAIN activityLog' : SameSegment(activityLog'[i], activeTracking[1])
          /\ ~activeCheckInterval' /\ ~activePulseInterval']_vars

\* C30: when startTracking writes its new session over a stored one, the
\* activity log holds an entry of that one's open segment.
C30_ReplacedSessionIsLogged ==
    [][(/\ cmd.op = "start" /\ cmd.pc = "create" /\ cmd' # cmd
        /\ activeTracking # <<>>)
       => \E i \in DOMAIN activityLog : SameSegment(activityLog[i], activeTracking[1])]_vars

\* ---------------------------------------------------------- error properties
\* C23: a branch check whose getCurrentBranch throws ends there: nothing is
\* appended, the session is as it was, the branch check interval and the
\* other timers are as they were, and the poll is idle for the next interval.
C23_FailedPollSkipped ==
    [][(poll.pc = "oracle" /\ poll'.branch = GitFail)
       => /\ poll'.pc = "idle"
          /\ UNCHANGED <<activityLog, activeTracking, timers>>]_vars

\* a branch check has failed and the interval of the session is still armed
C23_Witness ==
    /\ poll.pc = "idle" /\ poll.branch = GitFail
    /\ activeTracking # <<>>
    /\ activeCheckInterval

\* C28: no step of syncTempo adds or removes an entry or changes an entry's
\* directory, branch, startTime, endTime or description, and an issue id that
\* is present stays as it is: only synced, and an issue id that was missing,
\* are written.
C28_SyncWritesOnlySyncedAndMissingIssue ==
    [][/\ Len(activityLog') = Len(activityLog)
       /\ \A i \in DOMAIN activityLog :
            /\ activityLog'[i].directory = activityLog[i].directory
            /\ activityLog'[i].branch = activityLog[i].branch
            /\ activityLog'[i].startTime = activityLog[i].startTime
            /\ activityLog'[i].endTime = activityLog[i].endTime
            /\ activityLog'[i].description = activityLog[i].description
            /\ activityLog[i].issueId # 0 => activityLog'[i].issueId = activityLog[i].issueId]_vars

\* syncTempo has given an entry its missing issue id and marked one synced
C28_Witness ==
    /\ \E i \in DOMAIN activityLog :
         activityLog[i].issueId \in ProvidedIssueIds /\ activityLog[i].synced
    /\ \E i \in DOMAIN activityLog : activityLog[i].issueId = 8 /\ activityLog[i].synced

\* C26: every entry appended closes a segment the activity log has no entry
\* of yet, and whenever the stored session is removed or replaced by another
\* segment the log holds the entry of the segment it had.
C26_OneEntryPerSegmentEnd ==
    [][/\ Len(activityLog') > Len(activityLog)
            => \A i \in DOMAIN activityLog :
                   ~SameSegment(activityLog[i], activityLog'[Len(activityLog')])
       /\ (activeTracking # <<>> /\ activeTracking' # activeTracking)
            => \E i \in DOMAIN activityLog' :
                   SameSegment(activityLog'[i], activeTracking[1])]_vars

\* C24: a startTracking that ends because the branch lookup throws leaves the
\* session and the activity log as its getConfig() found them and the timers
\* as they are, and one that finds no repository changes nothing.
C24_GitErrorLeavesStoreAsBefore ==
    [][/\ (cmd.op = "start" /\ cmd.pc = "branch" /\ cmd'.op = "none")
            => /\ activeTracking' = cmd.config[1].activeTracking
               /\ activityLog' = cmd.config[1].activityLog
               /\ UNCHANGED <<timers, registry>>
       /\ (cmd.op = "none" /\ starts' # starts /\ cmd'.op = "none")
            => UNCHANGED <<store, timers, registry>>]_vars

\* C21: a heartbeat request that ends in an error is dropped where it is
\* caught: the sendPulse of the interval returns with the session, the log and
\* the timers as they were and sends nothing more until the interval fires
\* again, and a startTracking whose initial heartbeat fails goes on to arm the
\* pulse interval and the auto-stop timer with the session it stored unchanged
\* and exactly one heartbeat sent.
C21_FailedHeartbeatSwallowed ==
    [][/\ (pulse.pc = "send" /\ ~pulse.ok /\ pulse' # pulse)
            => /\ pulse'.pc = "idle"
               /\ UNCHANGED <<store, timers, cmd, beats>>
       /\ (/\ cmd.op = "start" /\ cmd.pc = "pulse" /\ cmd' # cmd
           /\ configured /\ activeTracking # <<>> /\ ~remoteUp)
            => /\ activePulseInterval' /\ autoStopTimer' = "armed"
               /\ UNCHANGED store
               /\ Len(beats') = Len(beats) + 1]_vars

\* C21 witness: the initial heartbeat of a startTracking failed, a heartbeat of
\* the interval failed too and its sendPulse has returned, and the session is
\* stored with the pulse interval armed.
C21_Witness ==
    /\ pulse.pc = "idle" /\ ~pulse.ok
    /\ activeTracking # <<>> /\ activePulseInterval
    /\ Len(beats) >= 2 /\ ~beats[1].ok /\ ~beats[2].ok

\* C22: a startTracking of a configured user that returns with its session
\* stored has sent, since it stored the session, exactly one heartbeat, and
\* that heartbeat carries the branch, issue and description of the session.
C22_StartSendsHeartbeat ==
    [][(/\ cmd.op = "start" /\ cmd.pc \in {"create", "pulse"} /\ cmd'.op = "none"
        /\ configured /\ activeTracking' # <<>>)
       => /\ Len(beats') = Len(beats) + 1
          /\ beats'[Len(beats')].branch = activeTracking'[1].branch
          /\ beats'[Len(beats')].issueId = activeTracking'[1].issueId
          /\ beats'[Len(beats')].description = activeTracking'[1].description]_vars

\* C25: tracking of repository a starts on dev at time 0, main is checked out
\* at time 2 (ten minutes), tracking is stopped at time 5 (twenty-five
\* minutes): the activity log is the entry of dev from 0 to 2 and the entry
\* of main from 2 to 5.
ScenarioRan ==
    /\ Quiet /\ starts = 1
    /\ run.start = 0 /\ run.stopTime = <<5>>
    /\ head = [branch |-> "main", since |-> 2]
    /\ Len(activityLog) > 0
    /\ activityLog[1].directory = RepoA /\ activityLog[1].branch = "dev"

C31_NoProbeTimerAfterReturn ==
    dop.op # "probe" => (~staleTimer /\ probeTimer # "armed")

\* the consequence C31 excludes: a testTimeout left behind disconnects the
\* client while a later operation awaits its response on it
StaleTimerSparesLaterConnection ==
    [][~(staleTimer /\ ~staleTimer' /\ ipc.connected /\ dop.op \notin {"none", "probe"})]_vars

\* C32: the runtime never has more than one branch check interval, one pulse
\* interval and one auto-stop timer armed, and an armed timer is always the
\* one its module variable holds: none is left running behind a handle that
\* was overwritten or dropped.
C32_OneTimerOfEachKind ==
    /\ live.check = (IF activeCheckInterval THEN 1 ELSE 0)
    /\ live.pulse = (IF activePulseInterval THEN 1 ELSE 0)
    /\ live.auto = (IF autoStopTimer = "armed" THEN 1 ELSE 0)

\* C32 witness: the second startTracking has stored its session over a
\* session whose timers were still armed (its pulse interval was found armed,
\* so no second heartbeat was sent), and all three timers are armed.
C32_Witness ==
    /\ starts = 2 /\ cmd.op = "none"
    /\ activeTracking # <<>>
    /\ activeTracking[1].issueId = IssueOrZero(Options(2).issueId)
    /\ Len(beats) = 1
    /\ activeCheckInterval /\ activePulseInterval /\ autoStopTimer = "armed"

\* the activities the loop is through with that ended the given way
HowMany(how) ==
    Cardinality({k \in DOMAIN processed.activities : processed.activities[k].how = how})

\* C33: while one syncTempo call runs, the activities it is through with
\* followed by those it has yet to take are the selected activities, in
\* order and without repetition; no activity had more than one worklog
\* created; successCount and failCount count the iterations that ended that
\* way, so that with the skipped ones they add up to the activities
\* processed; and an activity is counted as succeeded exactly if its worklog
\* was created and it is marked synced. The summary reports these counts.
C33_EachSelectedEntryOnce ==
    LET acts == processed.activities IN
    /\ sync.pc \in {"loop", "prompt", "submit", "mark"} =>
        /\ [k \in DOMAIN acts |-> acts[k].activity] \o sync.todo = sync.dateActivities
        /\ \A k, l \in DOMAIN sync.dateActivities :
               k # l => sync.dateActivities[k] # sync.dateActivities[l]
        /\ sync.succeeded = HowMany("succeeded")
        /\ sync.failed = HowMany("failed")
        /\ sync.succeeded + sync.failed + HowMany("skipped") = Len(acts)
    /\ \A k, l \in DOMAIN processed.submitted :
           k # l => processed.submitted[k] # processed.submitted[l]
    /\ \A k \in DOMAIN acts :
           acts[k].how = "succeeded"
               <=> /\ \E l \in DOMAIN processed.submitted :
                          processed.submitted[l] = acts[k].activity
                   /\ activityLog[acts[k].activity].synced
    /\ (sync.pc = "idle" /\ report # <<>> /\ report[1].outcome = "summary") =>
        /\ report[1].succeeded = HowMany("succeeded")
        /\ report[1].failed = HowMany("failed")
        /\ report[1].succeeded + report[1].failed + HowMany("skipped") = Len(acts)

\* C33 witness: a call over two selected activities has printed its summary,
\* one activity succeeded and the other was skipped or failed.
C33_Witness ==
    /\ sync.pc = "idle" /\ report # <<>> /\ report[1].outcome = "summary"
    /\ Len(processed.activities) = 2
    /\ HowMany("succeeded") = 1

\* C34: no heartbeat is sent while the latest session is one that a
\* stopTracking has closed and cleared, whenever the sendPulse that sends it
\* was started.
C34_NoHeartbeatAfterStop ==
    [][Len(beats') > Len(beats) => run.stopTime = <<>>]_vars

\* the nearest of a directory and its ancestors, the root included, that
\* holds .git: <<directory>>, or <<>> when none does
RECURSIVE Nearest(_, _)
Nearest(dir, tree) ==
    IF dir \in tree THEN <<dir>>
    ELSE IF dir = <<>> THEN <<>>
    ELSE Nearest(Dirname(dir), tree)

\* the loop of findGitRoot is at a directory that is not the root of its
\* path, holds no .git and is its own path.dirname: it stays there for ever
Spins ==
    /\ walk.pc = "loop"
    /\ walk.currentDir # ParseRoot(walk.currentDir)
    /\ ~ExistsGit(walk.currentDir)
    /\ PathDirname(walk.currentDir) = walk.currentDir

\* C35: findGitRoot never reaches a directory at which its loop stays for
\* ever, and what it returns names the nearest directory, among the start
\* directory and its ancestors up to and including the filesystem root, that
\* holds .git, or is null when none of them does.
C35_FindGitRootNearest ==
    /\ ~Spins
    /\ walk.pc = "returned" =>
         LET found == Nearest(Resolve(walk.start, walk.cwd), walk.tree) IN
         IF walk.result = <<>> THEN found = <<>>
         ELSE found = <<Resolve(walk.result[1], walk.cwd)>>

=========================================================================
